---------------------------- MODULE Spec2Model ----------------------------
(***************************************************************************)
(* A model of p92.cpp (Project Euler 92): the squigit function, its 32-bit *)
(* unsigned arithmetic, and the four solve() methods main runs in turn.    *)
(*                                                                         *)
(* A u32 value of the program is the pair <<hi, lo>> of its two 16-bit     *)
(* halves (value = hi * 2^16 + lo): the model checker's own integers are   *)
(* 32-bit signed and cannot hold every u32.  Loop counters and values the  *)
(* program keeps far below 2^31 are plain integers.                        *)
(***************************************************************************)
EXTENDS Integers, Sequences, FiniteSets, TLC

(***************************************************************************)
(* Bounds of the model (not program constants).                            *)
(***************************************************************************)
\* the whole-program specification runs main with an upper bound of
\* 10^digits for each digits in 1..NDigits (the source fixes digits = 7)
NDigits == 3

(***************************************************************************)
(* typedef uint32_t u32: arithmetic modulo 2^32 on <<hi, lo>> pairs.       *)
(***************************************************************************)
Limb == 2^16

Zero == <<0, 0>>

\* the u32 holding the integer n, 0 <= n < 2^31
U32(n) == <<n \div Limb, n % Limb>>

\* x holds a value below 2^31
Small(x) == x[1] < 2^15

\* the integer a u32 below 2^31 holds
Nat32(x) == x[1] * Limb + x[2]

\* the exact product, as <<hi, lo>>, of two 16-bit halves x and y
MulLimb(x, y) ==
  LET p == (x \div 256) * y
      q == (x % 256) * y
      lo == ((p % 256) * 256) + (q % Limb)
  IN  <<(p \div 256) + (q \div Limb) + (lo \div Limb), lo % Limb>>

\* a * b modulo 2^32
MulU32(a, b) ==
  LET w == MulLimb(a[2], b[2])
      c == MulLimb(a[1], b[2])[2] + MulLimb(a[2], b[1])[2]
  IN  <<(w[1] + c) % Limb, w[2]>>

\* a + b modulo 2^32
AddU32(a, b) ==
  LET lo == a[2] + b[2]
  IN  <<(a[1] + b[1] + (lo \div Limb)) % Limb, lo % Limb>>

\* a - b modulo 2^32
SubU32(a, b) ==
  LET borrow == IF a[2] < b[2] THEN 1 ELSE 0
  IN  <<(a[1] - b[1] - borrow + Limb) % Limb, (a[2] - b[2] + Limb) % Limb>>

\* a < b
LessU32(a, b) == a[1] < b[1] \/ (a[1] = b[1] /\ a[2] < b[2])

\* a / 2 as a plain integer (below 2^31 for every a)
HalfU32(a) == ((a[1] \div 2) * Limb) + ((a[1] % 2) * 2^15) + (a[2] \div 2)

\* <<a / b, a % b>> for a >= 2^31 > b > 0, from h = a / 2 = q0 * b + r0:
\* a = 2 * q0 * b + (2 * r0 + a % 2), and 2 * r0 + a % 2 < 2 * b holds at most
\* one more b (the comparison is made without forming 2 * r0)
DivModBig(a, bn) ==
  LET h == HalfU32(a)
      q0 == U32(h \div bn)
      r0 == h % bn
      bit == a[2] % 2
      ge == r0 >= bn - r0 - bit
  IN  IF ge
      THEN <<AddU32(AddU32(q0, q0), U32(1)), U32(r0 - (bn - r0 - bit))>>
      ELSE <<AddU32(q0, q0), U32((2 * r0) + bit)>>

\* <<a / b, a % b>> for b # 0
DivModU32(a, b) ==
  IF Small(a) /\ Small(b)
  THEN <<U32(Nat32(a) \div Nat32(b)), U32(Nat32(a) % Nat32(b))>>
  ELSE IF ~Small(b)
       THEN IF LessU32(a, b) THEN <<Zero, a>> ELSE <<U32(1), SubU32(a, b)>>
       ELSE DivModBig(a, Nat32(b))

DivU32(a, b) == DivModU32(a, b)[1]

ModU32(a, b) == DivModU32(a, b)[2]

(***************************************************************************)
(* u32 power(u32 base, u32 exp) and u32 squigit(u32 val).                  *)
(***************************************************************************)
\* the outcome of an integer division by zero (the program is killed)
Trap == <<-1, -1>>

RECURSIVE power_loop(_, _, _)
\* while(exp != 0) { ans *= base; --exp; }, acc being ans.  Each pass draws
\* the new ans from a one-element set: it then starts from a value, as in the
\* program, and not from the expression of all the passes before it.
power_loop(acc, base, exp) ==
  IF exp # 0
  THEN CHOOSE r \in {power_loop(a, base, exp - 1) : a \in {MulU32(acc, base)}} : TRUE
  ELSE acc

\* power(10, e) for e = 0..12, each computed by the loop, kept for squigit's
\* calls: entry e + 1 is power(10, e)
PowersOfTen == [e \in 1 .. 13 |-> power_loop(U32(1), U32(10), e - 1)] \o <<>>

\* exp is a plain integer: every call passes i or i - 1 with i >= 1
power(base, exp) ==
  IF base = U32(10) /\ exp < Len(PowersOfTen)
  THEN PowersOfTen[exp + 1]
  ELSE power_loop(U32(1), base, exp)

\* lines 424-427, one pass of while(val != 0) on val = v, ans = acc, i = n:
\* the new <<val, ans, i>>, or Trap when a power is 0 (a division by zero)
squigit_pass(v, acc, n) ==
  LET p == power(U32(10), n)
      p1 == power(U32(10), n - 1)
  IN  IF p = Zero \/ p1 = Zero THEN Trap
      ELSE LET mod_val == ModU32(v, p)
               d == DivU32(mod_val, p1)
           IN  <<SubU32(v, mod_val), AddU32(acc, MulU32(d, d)), n + 1>>

RECURSIVE squigit_loop(_, _, _)
squigit_loop(v, acc, n) ==
  IF v = Zero THEN acc
  ELSE CHOOSE r \in {IF s = Trap THEN Trap ELSE squigit_loop(s[1], s[2], s[3]) :
                       s \in {squigit_pass(v, acc, n)}} : TRUE

squigit(v) == squigit_loop(v, Zero, 1)

\* squigit of a plain integer below 2^31 whose squigit is below 2^31
squigit_of(n) == Nat32(squigit(U32(n)))

(***************************************************************************)
(* DigitsMethod's static helpers: fact, remove_element, combination.       *)
(***************************************************************************)
RECURSIVE fact_loop(_, _)
fact_loop(acc, num) ==
  IF num # 1
  THEN CHOOSE r \in {fact_loop(a, num - 1) : a \in {MulU32(acc, U32(num))}} : TRUE
  ELSE acc

\* fact(0) multiplies ans by 0 first, then num wraps to 2^32 - 1 and the loop
\* runs on to 1 with ans = 0: its result is 0
fact_of(num) == IF num = 0 THEN Zero ELSE fact_loop(U32(1), num)

\* fact(n) for n = 1..10, each computed by the loop, kept for solve's calls
Factorials == [n \in 1 .. 10 |-> fact_of(n)] \o <<>>

fact(num) == IF num \in 1 .. Len(Factorials) THEN Factorials[num] ELSE fact_of(num)

\* remove_element erasing the last element whatever e is
remove_element_back(ns, e) == SubSeq(ns, 1, Len(ns) - 1)

\* ns without the first occurrence of e
remove_element(ns, e) ==
  IF \E j \in 1 .. Len(ns) : ns[j] = e
  THEN LET j == CHOOSE j \in 1 .. Len(ns) :
                  /\ ns[j] = e
                  /\ \A l \in 1 .. (j - 1) : ns[l] # e
       IN  SubSeq(ns, 1, j - 1) \o SubSeq(ns, j + 1, Len(ns))
  ELSE ns

RECURSIVE combination(_, _)
RECURSIVE combination_loop(_, _, _, _, _)
\* the range-for of lines 291-300, from the j-th element of elements on
combination_loop(elements, r, j, elements_to_use, return_val) ==
  IF j > Len(elements) THEN return_val
  ELSE CHOOSE ret \in
         {combination_loop(elements, r, j + 1, rest,
                           return_val \o [c \in 1 .. Len(combos) |->
                                            Append(combos[c], elements[j])]) :
            rest \in {remove_element(elements_to_use, elements[j])},
            combos \in {combination(elements_to_use, r - 1)}} : TRUE

combination(elements, r) ==
  IF r = 1
  THEN [j \in 1 .. Len(elements) |-> <<elements[j]>>]
  ELSE combination_loop(elements, r, 1, elements, <<>>)

\* std::vector<u32> nums{0, 1, ..., 9}
nums == <<0, 1, 2, 3, 4, 5, 6, 7, 8, 9>>

\* the number of decimal digits the source is written for: TEN_MILLION is 10^7,
\* 567 is 81 * 7 and solve calls combination(nums, 7)
SourceDigits == 7

\* combination(nums, r) for every r a run of the model uses (NDigits is at most
\* SourceDigits), as an explicit sequence indexed by r
AllCombinations == [r \in 1 .. SourceDigits |-> combination(nums, r)] \o <<>>

\* int duplicates[10]: how often each digit occurs in combo
duplicates_of(combo) ==
  [d \in 0 .. 9 |-> Cardinality({j \in 1 .. Len(combo) : combo[j] = d})]

\* the loop body dividing by the digit's count, not by its factorial
divide_by_count(sn, dup) ==
  IF dup > 0 THEN sn \div dup ELSE sn

\* one pass of the loop body of lines 350-352
divide_by_fact(sn, dup) ==
  IF dup > 0 THEN sn \div Nat32(fact(dup)) ELSE sn

RECURSIVE divide_from(_, _, _)
divide_from(sn, dups, n) ==
  IF n < 10
  THEN CHOOSE r \in {divide_from(q, dups, n + 1) :
                       q \in {divide_by_fact(sn, dups[n])}} : TRUE
  ELSE sn

\* starting_numbers as lines 342-353 compute it for combo
starting_numbers_of(combo) ==
  divide_from(Nat32(fact(Len(combo))), duplicates_of(combo), 0)

(***************************************************************************)
(* The state: where main is, and the locals of the solve() that runs.      *)
(***************************************************************************)
VARIABLES
  pc,                      \* the statement about to run
  digits,                  \* the run's upper bound is 10^digits (7 in the source)
  results,                 \* what the solve() calls returned so far, in main's order
  i,                       \* the outer loop's counter
  val,                     \* u32 val
  current_chain_number,
  chain_length,
  numbers_ending_with_89,
  numbers_that_goto_89,    \* [size, bits]: size() and the indices whose bit is 1
  numbers_that_goto_1,
  chain_numbers,
  goes_to_1,
  checked,                 \* the tests line 147-150 has made on the current val
  squigits_to_1,           \* bool[1024] as a function on the slots written so far
  ans,
  ci,                      \* the position of combo in combinations
  squigit_val,
  starting_numbers,
  duplicates,
  k,                       \* the counter of the loop of line 349
  fact_call,               \* <<num, result>> of the latest call of fact
  sq_in,                   \* the argument of a lone squigit call
  sq_out                   \* and its result

vars == <<pc, digits, results, i, val, current_chain_number, chain_length,
          numbers_ending_with_89, numbers_that_goto_89, numbers_that_goto_1,
          chain_numbers, goes_to_1, checked, squigits_to_1, ans, ci, squigit_val,
          starting_numbers, duplicates, k, fact_call, sq_in, sq_out>>

chainv == <<current_chain_number, chain_length, numbers_ending_with_89>>

cachev == <<numbers_that_goto_89, numbers_that_goto_1, chain_numbers, goes_to_1, checked>>

tablev == <<squigits_to_1, ans>>

combv == <<ci, squigit_val, starting_numbers, duplicates, k, fact_call>>

sqv == <<sq_in, sq_out>>

\* const u32 TEN_MILLION{10000000}, scaled to the run's number of digits
TEN_MILLION == 10^digits

\* MaxSquigit with the table one slot short (i < 567 for i <= 567)
MaxSquigit_short == (81 * digits) - 1

\* the literal 567 = 9^2 * 7 of lines 134, 135, 190 and 310, scaled likewise
MaxSquigit == 81 * digits

\* std::vector<std::vector<u32>> combinations = combination(nums, 7)
combinations == AllCombinations[digits]

NoVector == [size |-> 0, bits |-> {}]

NoTable == [x \in {} |-> FALSE]

NoDuplicates == [d \in 0 .. 9 |-> 0]

NoFactCall == <<-1, -1>>

NoInput == [top |-> 0, low |-> 0]

\* the locals of the solve() methods, before main calls anything
Locals0 ==
  /\ results = <<>>
  /\ i = 0
  /\ val = 0
  /\ current_chain_number = 0
  /\ chain_length = 0
  /\ numbers_ending_with_89 = 0
  /\ numbers_that_goto_89 = NoVector
  /\ numbers_that_goto_1 = NoVector
  /\ chain_numbers = <<>>
  /\ goes_to_1 = FALSE
  /\ checked = {}
  /\ squigits_to_1 = NoTable
  /\ ans = 0
  /\ ci = 0
  /\ squigit_val = 0
  /\ starting_numbers = 0
  /\ duplicates = NoDuplicates
  /\ k = 0
  /\ fact_call = NoFactCall

\* no lone squigit call is made
NoSquigitCall ==
  /\ sq_in = NoInput
  /\ sq_out = Zero

\* main, scaled: the four solve() calls in the order of lines 379-385
Init ==
  /\ pc = "call_bf"
  /\ digits \in 1 .. NDigits
  /\ Locals0
  /\ NoSquigitCall

(***************************************************************************)
(* BruteForceMethod::solve (lines 84-117).                                 *)
(***************************************************************************)
\* lines 85-90: the locals, and the first pass of the outer loop (1 < TEN_MILLION)
BF_Enter ==
  /\ pc = "call_bf"
  /\ numbers_ending_with_89' = 0
  /\ i' = 1
  /\ current_chain_number' = 1
  /\ chain_length' = 0
  /\ pc' = "bf_iter"
  /\ UNCHANGED <<digits, results, val, cachev, tablev, combv, sqv>>

\* the pass of while(true) without the branch else if(val == 1) break
BF_Iter_no1 ==
  /\ pc = "bf_iter"
  /\ val' = squigit_of(current_chain_number)
  /\ IF val' = 89
     THEN /\ numbers_ending_with_89' = numbers_ending_with_89 + 1
          /\ pc' = "bf_exit"
          /\ UNCHANGED <<current_chain_number, chain_length>>
     ELSE /\ current_chain_number' = val'
          /\ chain_length' = chain_length + 1
          /\ pc' = "bf_iter"
          /\ UNCHANGED numbers_ending_with_89
  /\ UNCHANGED <<digits, results, i, cachev, tablev, combv, sqv>>

\* lines 91-104: one pass of while(true)
BF_Iter ==
  /\ pc = "bf_iter"
  /\ val' = squigit_of(current_chain_number)
  /\ IF val' = 89
     THEN /\ numbers_ending_with_89' = numbers_ending_with_89 + 1
          /\ pc' = "bf_exit"
          /\ UNCHANGED <<current_chain_number, chain_length>>
     ELSE IF val' = 1
          THEN /\ pc' = "bf_exit"
               /\ UNCHANGED chainv
          ELSE /\ current_chain_number' = val'
               /\ chain_length' = chain_length + 1
               /\ pc' = "bf_iter"
               /\ UNCHANGED numbers_ending_with_89
  /\ UNCHANGED <<digits, results, i, cachev, tablev, combv, sqv>>

\* after the break: ++i and the test of line 87, then lines 88-90 or the return
BF_Next ==
  /\ pc = "bf_exit"
  /\ IF i + 1 < TEN_MILLION
     THEN /\ i' = i + 1
          /\ current_chain_number' = i + 1
          /\ chain_length' = 0
          /\ pc' = "bf_iter"
          /\ UNCHANGED <<results, val, numbers_ending_with_89>>
     ELSE /\ results' = Append(results, numbers_ending_with_89)
          /\ i' = 0
          /\ val' = 0
          /\ current_chain_number' = 0
          /\ chain_length' = 0
          /\ numbers_ending_with_89' = 0
          /\ pc' = "call_bfc"
  /\ UNCHANGED <<digits, cachev, tablev, combv, sqv>>

(***************************************************************************)
(* BruteForceMethodCached::solve (lines 130-171).                          *)
(***************************************************************************)
\* What the heap block that reserve() allocates may hold at the indices past
\* size(): reserve copies the one element and does not initialise the rest.
\* Each sample names the indices whose bit is 1 in either vector's block; the
\* first is the cleared block a fresh page gives.
HeapGarbage == {[to89 |-> {}, to1 |-> {}],
                [to89 |-> {1}, to1 |-> {}],
                [to89 |-> {4}, to1 |-> {4}]}

\* lines 132-142: both vectors are built with the one element false (size()
\* is 1) and reserve() leaves size() alone; then the first pass of the loop
BFC_Enter ==
  /\ pc = "call_bfc"
  /\ \E g \in HeapGarbage :
       /\ numbers_that_goto_89' = [size |-> 1, bits |-> g.to89]
       /\ numbers_that_goto_1' = [size |-> 1, bits |-> g.to1]
  /\ numbers_ending_with_89' = 0
  /\ i' = 1
  /\ current_chain_number' = 1
  /\ chain_numbers' = <<>>
  /\ goes_to_1' = FALSE
  /\ pc' = "bfc_squigit"
  /\ UNCHANGED <<digits, results, val, chain_length, checked, tablev, combv, sqv>>

\* line 145 followed by the cache read, the comparison val == 89 left out
BFC_Squigit_cachefirst ==
  /\ pc = "bfc_squigit"
  /\ val' = squigit_of(current_chain_number)
  /\ checked' = {}
  /\ pc' = "bfc_rd89"
  /\ UNCHANGED <<digits, results, i, chainv, numbers_that_goto_89,
                 numbers_that_goto_1, chain_numbers, goes_to_1, tablev, combv, sqv>>

\* line 145
BFC_Squigit ==
  /\ pc = "bfc_squigit"
  /\ val' = squigit_of(current_chain_number)
  /\ checked' = {}
  /\ pc' = "bfc_cmp89"
  /\ UNCHANGED <<digits, results, i, chainv, numbers_that_goto_89,
                 numbers_that_goto_1, chain_numbers, goes_to_1, tablev, combv, sqv>>

\* line 147, left operand of ||: val == 89
BFC_Cmp89 ==
  /\ pc = "bfc_cmp89"
  /\ checked' = checked \cup {"val == 89"}
  /\ IF val = 89
     THEN /\ numbers_ending_with_89' = numbers_ending_with_89 + 1
          /\ pc' = "bfc_mark"
     ELSE /\ pc' = "bfc_rd89"
          /\ UNCHANGED numbers_ending_with_89
  /\ UNCHANGED <<digits, results, i, val, current_chain_number, chain_length,
                 numbers_that_goto_89, numbers_that_goto_1, chain_numbers,
                 goes_to_1, tablev, combv, sqv>>

\* line 147, right operand: numbers_that_goto_89[val]
BFC_Rd89 ==
  /\ pc = "bfc_rd89"
  /\ checked' = checked \cup {"numbers_that_goto_89[val]"}
  /\ IF val \in numbers_that_goto_89.bits
     THEN /\ numbers_ending_with_89' = numbers_ending_with_89 + 1
          /\ pc' = "bfc_mark"
     ELSE /\ pc' = "bfc_cmp1"
          /\ UNCHANGED numbers_ending_with_89
  /\ UNCHANGED <<digits, results, i, val, current_chain_number, chain_length,
                 numbers_that_goto_89, numbers_that_goto_1, chain_numbers,
                 goes_to_1, tablev, combv, sqv>>

\* line 150, left operand: val == 1
BFC_Cmp1 ==
  /\ pc = "bfc_cmp1"
  /\ checked' = checked \cup {"val == 1"}
  /\ IF val = 1
     THEN /\ goes_to_1' = TRUE
          /\ pc' = "bfc_mark"
     ELSE /\ pc' = "bfc_rd1"
          /\ UNCHANGED goes_to_1
  /\ UNCHANGED <<digits, results, i, val, chainv, numbers_that_goto_89,
                 numbers_that_goto_1, chain_numbers, tablev, combv, sqv>>

\* line 150, right operand: numbers_that_goto_1[val]; else lines 153-156
BFC_Rd1 ==
  /\ pc = "bfc_rd1"
  /\ checked' = checked \cup {"numbers_that_goto_1[val]"}
  /\ IF val \in numbers_that_goto_1.bits
     THEN /\ goes_to_1' = TRUE
          /\ pc' = "bfc_mark"
          /\ UNCHANGED <<current_chain_number, chain_numbers>>
     ELSE /\ current_chain_number' = val
          /\ chain_numbers' = Append(chain_numbers, val)
          /\ pc' = "bfc_squigit"
          /\ UNCHANGED goes_to_1
  /\ UNCHANGED <<digits, results, i, val, chain_length, numbers_ending_with_89,
                 numbers_that_goto_89, numbers_that_goto_1, tablev, combv, sqv>>

\* the set of the elements of a sequence
Elements(seq) == {seq[j] : j \in 1 .. Len(seq)}

\* lines 159-167: every chain number is marked in one of the vectors
BFC_Mark ==
  /\ pc = "bfc_mark"
  /\ IF goes_to_1
     THEN /\ numbers_that_goto_1' =
               [numbers_that_goto_1 EXCEPT !.bits = @ \cup Elements(chain_numbers)]
          /\ UNCHANGED numbers_that_goto_89
     ELSE /\ numbers_that_goto_89' =
               [numbers_that_goto_89 EXCEPT !.bits = @ \cup Elements(chain_numbers)]
          /\ UNCHANGED numbers_that_goto_1
  /\ pc' = "bfc_next"
  /\ UNCHANGED <<digits, results, i, val, chainv, chain_numbers, goes_to_1,
                 checked, tablev, combv, sqv>>

\* ++i and the test of line 138, then lines 140-142 or the return
BFC_Next ==
  /\ pc = "bfc_next"
  /\ IF i + 1 < TEN_MILLION
     THEN /\ i' = i + 1
          /\ current_chain_number' = i + 1
          /\ chain_numbers' = <<>>
          /\ goes_to_1' = FALSE
          /\ pc' = "bfc_squigit"
          /\ UNCHANGED <<results, val, numbers_ending_with_89,
                         numbers_that_goto_89, numbers_that_goto_1, checked>>
     ELSE /\ results' = Append(results, numbers_ending_with_89)
          /\ i' = 0
          /\ val' = 0
          /\ current_chain_number' = 0
          /\ numbers_ending_with_89' = 0
          /\ numbers_that_goto_89' = NoVector
          /\ numbers_that_goto_1' = NoVector
          /\ chain_numbers' = <<>>
          /\ goes_to_1' = FALSE
          /\ checked' = {}
          /\ pc' = "call_sq"
  /\ UNCHANGED <<digits, chain_length, tablev, combv, sqv>>

(***************************************************************************)
(* The table squigits_to_1 of SquigitsMethod::solve (lines 188-203) and of *)
(* DigitsMethod::solve (lines 308-323): the same code in both.             *)
(***************************************************************************)
\* bool squigits_to_1[1024] is not initialised; i = 1 passes i <= 567
Table_Enter(here, loop) ==
  /\ pc = here
  /\ squigits_to_1' = NoTable
  /\ i' = 1
  /\ val' = 1
  /\ pc' = loop
  /\ UNCHANGED <<digits, results, chainv, cachev, ans, combv, sqv>>

\* squigits_to_1[i] = b, then ++i and the test i <= 567
Table_Write(b, loop, after) ==
  /\ squigits_to_1' = [x \in DOMAIN squigits_to_1 \cup {i} |->
                          IF x = i THEN b ELSE squigits_to_1[x]]
  /\ IF i + 1 <= MaxSquigit
     THEN /\ i' = i + 1
          /\ val' = i + 1
          /\ pc' = loop
     ELSE /\ i' = 0
          /\ val' = 0
          /\ pc' = after

\* one pass of while(true), lines 192-202 (312-322)
Table_Iter(loop, after) ==
  /\ pc = loop
  /\ IF val = 1
     THEN Table_Write(TRUE, loop, after)
     ELSE IF val = 89
          THEN Table_Write(FALSE, loop, after)
          ELSE /\ val' = squigit_of(val)
               /\ UNCHANGED <<pc, i, squigits_to_1>>
  /\ UNCHANGED <<digits, results, chainv, cachev, ans, combv, sqv>>

\* what reading squigits_to_1[idx] may give: the value written, or whatever
\* the stack holds at a slot never written
Table_Read(idx) ==
  IF idx \in DOMAIN squigits_to_1 THEN {squigits_to_1[idx]} ELSE BOOLEAN

(***************************************************************************)
(* SquigitsMethod::solve (lines 186-213).                                  *)
(***************************************************************************)
SQ_Enter == Table_Enter("call_sq", "sq_pre")

SQ_Pre == Table_Iter("sq_pre", "sq_start")

\* lines 205-206: ans, and i = 1 passes i < TEN_MILLION
SQ_Start ==
  /\ pc = "sq_start"
  /\ ans' = 0
  /\ i' = 1
  /\ pc' = "sq_main"
  /\ UNCHANGED <<digits, results, val, chainv, cachev, squigits_to_1, combv, sqv>>

\* lines 207-209, then ++i and the test of line 206, then the return
SQ_Main ==
  /\ pc = "sq_main"
  /\ \E b \in Table_Read(squigit_of(i)) :
       LET ans1 == IF ~b THEN ans + 1 ELSE ans
       IN  IF i + 1 < TEN_MILLION
           THEN /\ ans' = ans1
                /\ i' = i + 1
                /\ UNCHANGED <<pc, results, squigits_to_1>>
           ELSE /\ results' = Append(results, ans1)
                /\ ans' = 0
                /\ i' = 0
                /\ squigits_to_1' = NoTable
                /\ pc' = "call_dm"
  /\ UNCHANGED <<digits, val, chainv, cachev, combv, sqv>>

(***************************************************************************)
(* DigitsMethod::solve (lines 306-360).                                    *)
(***************************************************************************)
DM_Enter == Table_Enter("call_dm", "dm_pre")

DM_Pre == Table_Iter("dm_pre", "dm_comb")

\* lines 326-332: the combinations, ans, and the first combo
DM_Combine ==
  /\ pc = "dm_comb"
  /\ ans' = 0
  /\ ci' = 1
  /\ pc' = "dm_squigit"
  /\ UNCHANGED <<digits, results, i, val, chainv, cachev, squigits_to_1,
                 squigit_val, starting_numbers, duplicates, k, fact_call, sqv>>

RECURSIVE squigit_sum(_, _)
\* lines 333-336: squigit_val += squigit(num) over combo, from position j on
squigit_sum(combo, j) ==
  IF j > Len(combo) THEN Zero
  ELSE AddU32(squigit(U32(combo[j])), squigit_sum(combo, j + 1))

DM_Squigit ==
  /\ pc = "dm_squigit"
  /\ squigit_val' = Nat32(squigit_sum(combinations[ci], 1))
  /\ pc' = "dm_test"
  /\ UNCHANGED <<digits, results, i, val, chainv, cachev, tablev, ci,
                 starting_numbers, duplicates, k, fact_call, sqv>>

\* the range-for of line 332 moves to the next combo, or solve returns ans1
DM_NextCombo(ans1) ==
  IF ci + 1 <= Len(combinations)
  THEN /\ ans' = ans1
       /\ ci' = ci + 1
       /\ pc' = "dm_squigit"
       /\ UNCHANGED <<results, squigits_to_1>>
  ELSE /\ results' = Append(results, ans1)
       /\ ans' = 0
       /\ ci' = 0
       /\ squigits_to_1' = NoTable
       /\ pc' = "done"

\* line 339, and when it holds lines 340-349: fact(combo.size()), duplicates
DM_Test ==
  /\ pc = "dm_test"
  /\ \E b \in (IF squigit_val # 0 THEN Table_Read(squigit_val) ELSE {TRUE}) :
       IF squigit_val # 0 /\ ~b
       THEN /\ fact_call' = <<Len(combinations[ci]), fact(Len(combinations[ci]))>>
            /\ starting_numbers' = Nat32(fact(Len(combinations[ci])))
            /\ duplicates' = duplicates_of(combinations[ci])
            /\ k' = 0
            /\ pc' = "dm_div"
            /\ UNCHANGED <<results, tablev, ci, squigit_val>>
       ELSE /\ DM_NextCombo(ans)
            /\ squigit_val' = 0
            /\ UNCHANGED <<starting_numbers, duplicates, k, fact_call>>
  /\ UNCHANGED <<digits, i, val, chainv, cachev, sqv>>

\* the pass of the loop of line 349 without the test of line 351
DM_Div_every ==
  /\ pc = "dm_div"
  /\ fact_call' = <<duplicates[k], fact(duplicates[k])>>
  /\ IF fact(duplicates[k]) = Zero
     THEN /\ pc' = "trap"
          /\ UNCHANGED <<starting_numbers, k>>
     ELSE /\ starting_numbers' = starting_numbers \div Nat32(fact(duplicates[k]))
          /\ k' = k + 1
          /\ pc' = IF k + 1 < 10 THEN "dm_div" ELSE "dm_add"
  /\ UNCHANGED <<digits, results, i, val, chainv, cachev, tablev, ci,
                 squigit_val, duplicates, sqv>>

\* lines 349-353, one pass; a zero divisor kills the program
DM_Div ==
  /\ pc = "dm_div"
  /\ IF duplicates[k] > 0
     THEN /\ fact_call' = <<duplicates[k], fact(duplicates[k])>>
          /\ IF fact(duplicates[k]) = Zero
             THEN /\ pc' = "trap"
                  /\ UNCHANGED <<starting_numbers, k>>
             ELSE /\ starting_numbers' = divide_by_fact(starting_numbers, duplicates[k])
                  /\ k' = k + 1
                  /\ pc' = IF k + 1 < 10 THEN "dm_div" ELSE "dm_add"
     ELSE /\ k' = k + 1
          /\ pc' = IF k + 1 < 10 THEN "dm_div" ELSE "dm_add"
          /\ UNCHANGED <<starting_numbers, fact_call>>
  /\ UNCHANGED <<digits, results, i, val, chainv, cachev, tablev, ci,
                 squigit_val, duplicates, sqv>>

\* line 355, then the next combo
DM_Add ==
  /\ pc = "dm_add"
  /\ DM_NextCombo(ans + starting_numbers)
  /\ squigit_val' = 0
  /\ starting_numbers' = 0
  /\ duplicates' = NoDuplicates
  /\ k' = 0
  /\ UNCHANGED <<digits, i, val, chainv, cachev, fact_call, sqv>>

(***************************************************************************)
(* main (lines 369-403).                                                   *)
(***************************************************************************)
Next ==
  \/ BF_Enter \/ BF_Iter \/ BF_Next
  \/ BFC_Enter \/ BFC_Squigit \/ BFC_Cmp89 \/ BFC_Rd89 \/ BFC_Cmp1 \/ BFC_Rd1
  \/ BFC_Mark \/ BFC_Next
  \/ SQ_Enter \/ SQ_Pre \/ SQ_Start \/ SQ_Main
  \/ DM_Enter \/ DM_Pre \/ DM_Combine \/ DM_Squigit \/ DM_Test \/ DM_Div \/ DM_Add

Spec == Init /\ [][Next]_vars

(***************************************************************************)
(* DigitsMethod::solve alone, as the source has it (7 digits).             *)
(***************************************************************************)
InitDigits ==
  /\ pc = "call_dm"
  /\ digits = SourceDigits
  /\ Locals0
  /\ NoSquigitCall

NextDigits ==
  \/ DM_Enter \/ DM_Pre \/ DM_Combine \/ DM_Squigit \/ DM_Test \/ DM_Div \/ DM_Add

SpecDigits == InitDigits /\ [][NextDigits]_vars

(***************************************************************************)
(* squigit applied to one 32-bit input.                                    *)
(***************************************************************************)
\* the inputs: the leading (tenth) decimal digit and the nine digits below it
SquigitTops == 0 .. 4

SquigitLows == {0, 1, 7, 44, 85, 89, 145, 999, 4096, 65535, 65536, 1000000,
                9999999, 10000000, 123456789, 294967295, 294967296, 410065408,
                500000000, 700000007, 987654321, 999999999}

\* the u32 with leading digit top and lower digits low
SquigitInput(in) == AddU32(MulU32(U32(in.top), U32(1000000000)), U32(in.low))

SquigitInputs == {in \in [top : SquigitTops, low : SquigitLows] :
                     in.top < 4 \/ in.low <= 294967295}

InitSquigit ==
  /\ pc = "squigit_call"
  /\ digits = SourceDigits
  /\ Locals0
  /\ sq_in \in SquigitInputs
  /\ sq_out = Zero

\* the call and its return
Squigit_Call ==
  /\ pc = "squigit_call"
  /\ sq_out' = squigit(SquigitInput(sq_in))
  /\ pc' = "squigit_ret"
  /\ UNCHANGED <<digits, results, i, val, chainv, cachev, tablev, combv, sq_in>>

NextSquigit == Squigit_Call

SpecSquigit == InitSquigit /\ [][NextSquigit]_vars

(***************************************************************************)
(* One pass of the outer loop of BruteForceMethod::solve, as the source    *)
(* has it (7 digits), from one starting number for every combination of    *)
(* seven digits: the chain of i depends on the digits of i only through    *)
(* squigit(i), which does not depend on their order.                       *)
(***************************************************************************)
RECURSIVE NumberOf(_, _)
\* the number whose decimal digits, lowest first, are combo[j], combo[j+1], ...
NumberOf(combo, j) ==
  IF j > Len(combo) THEN 0 ELSE combo[j] + (10 * NumberOf(combo, j + 1))

ChainStarts ==
  {NumberOf(AllCombinations[SourceDigits][c], 1) :
     c \in 1 .. Len(AllCombinations[SourceDigits])} \ {0}

\* lines 87-90 at the starting number i
InitChain ==
  /\ pc = "bf_iter"
  /\ digits = SourceDigits
  /\ results = <<>>
  /\ i \in ChainStarts
  /\ current_chain_number = i
  /\ val = 0
  /\ chain_length = 0
  /\ numbers_ending_with_89 = 0
  /\ numbers_that_goto_89 = NoVector
  /\ numbers_that_goto_1 = NoVector
  /\ chain_numbers = <<>>
  /\ goes_to_1 = FALSE
  /\ checked = {}
  /\ squigits_to_1 = NoTable
  /\ ans = 0
  /\ ci = 0
  /\ squigit_val = 0
  /\ starting_numbers = 0
  /\ duplicates = NoDuplicates
  /\ k = 0
  /\ fact_call = NoFactCall
  /\ NoSquigitCall

NextChain == BF_Iter

SpecChain == InitChain /\ [][NextChain]_vars

(***************************************************************************)
(*                             Properties                                  *)
(***************************************************************************)
RECURSIVE DigitSquares(_)
\* the sum of the squares of the decimal digits of n, by n % 10 and n / 10
DigitSquares(n) ==
  IF n = 0 THEN 0 ELSE ((n % 10) * (n % 10)) + DigitSquares(n \div 10)

RECURSIVE CountSeqs(_, _)
\* the sequences of n naturals whose sum is total
CountSeqs(n, total) ==
  IF n = 0
  THEN IF total = 0 THEN {<<>>} ELSE {}
  ELSE UNION {{Append(s, c) : s \in CountSeqs(n - 1, total - c)} : c \in 0 .. total}

\* every multiset of size digits over the digits 0..9, as its count per digit
Multisets(size) ==
  {[d \in 0 .. 9 |-> s[d + 1]] : s \in CountSeqs(10, size)}

RECURSIVE SumStartingNumbers(_, _)
\* the sum of starting_numbers_of over the b-th block of 2^n combinations
\* (combinations[(b - 1) * 2^n + 1 .. b * 2^n], as far as they exist)
SumStartingNumbers(n, b) ==
  IF n = 0
  THEN IF b <= Len(combinations) THEN starting_numbers_of(combinations[b]) ELSE 0
  ELSE SumStartingNumbers(n - 1, (2 * b) - 1) + SumStartingNumbers(n - 1, 2 * b)

\* the state in which DigitsMethod::solve has just built combinations
CombinationsBuilt == pc = "dm_squigit" /\ ci = 1 /\ digits = SourceDigits

\* C1: when main has called the four methods, the four counts are the same.
C1_SameCount ==
  pc = "done" => \A m, n \in 1 .. Len(results) : results[m] = results[n]

\* C2: squigit(val) is the sum of the squares of the decimal digits of val,
\* for every 32-bit val (it returns, and returns that sum).
C2_SquigitIsDigitSquareSum ==
  pc = "squigit_ret" =>
    sq_out = U32((sq_in.top * sq_in.top) + DigitSquares(sq_in.low))

\* C3: in the main pass of SquigitsMethod::solve, squigit(i) lies in
\* 1..567 (81 per digit of the bound) and the slot squigits_to_1[squigit(i)]
\* read there was written by the precomputation.
C3_MainPassReadsWrittenSlots ==
  pc = "sq_main" =>
    /\ squigit_of(i) \in 1 .. (81 * digits)
    /\ squigit_of(i) \in DOMAIN squigits_to_1
    /\ Table_Read(squigit_of(i)) = {squigits_to_1[squigit_of(i)]}

\* the main pass reads the highest slot of the table (at i = 99..9)
C3_Witness ==
  /\ pc = "sq_main"
  /\ digits = NDigits
  /\ squigit_of(i) = 81 * digits
  /\ squigit_of(i) \in DOMAIN squigits_to_1

\* C4: combination({0..9}, 7) has 11440 combinations, each of 7 digits, and
\* every multiset of 7 digits over 0..9 is exactly one of them.
C4_CombinationsAreTheMultisets ==
  CombinationsBuilt =>
    /\ Len(combinations) = 11440
    /\ \A c \in 1 .. Len(combinations) : Len(combinations[c]) = 7
    /\ {duplicates_of(combinations[c]) : c \in 1 .. Len(combinations)} = Multisets(7)
    /\ Cardinality(Multisets(7)) = 11440

\* combinations is built, and holds 7777777 and a combination of 7 digits
C4_Witness ==
  /\ CombinationsBuilt
  /\ \E c \in 1 .. Len(combinations) : combinations[c] = <<7, 7, 7, 7, 7, 7, 7>>
  /\ \E c \in 1 .. Len(combinations) : duplicates_of(combinations[c])[0] = 6

\* C5: the permutation counts fact(7) / fact(c0) / ... / fact(c9) of all the
\* combinations sum to 10,000,000, and starting_numbers is that count when it
\* is added to ans.
C5_PermutationCountsSumToTenMillion ==
  /\ CombinationsBuilt => SumStartingNumbers(14, 1) = 10000000
  /\ (pc = "dm_add" /\ digits = SourceDigits) =>
       starting_numbers = starting_numbers_of(combinations[ci])

\* the combination 2000000 is added with its 7!/6!/1! = 7 starting numbers
C5_Witness ==
  /\ pc = "dm_add"
  /\ digits = SourceDigits
  /\ combinations[ci] = <<2, 0, 0, 0, 0, 0, 0>>
  /\ starting_numbers = 7

\* C6: every index BruteForceMethodCached::solve uses on a cache vector
\* (val read at lines 147 and 150, the chain numbers set at lines 159-167) is
\* below that vector's size().
C6_CacheIndexInSize ==
  /\ pc = "bfc_rd89" => val < numbers_that_goto_89.size
  /\ pc = "bfc_rd1" => val < numbers_that_goto_1.size
  /\ pc = "bfc_mark" =>
       \A n \in Elements(chain_numbers) :
          n < (IF goes_to_1 THEN numbers_that_goto_1.size
               ELSE numbers_that_goto_89.size)

\* C7: no index is true in both numbers_that_goto_89 and numbers_that_goto_1.
C7_CachesDisjoint ==
  numbers_that_goto_89.bits \cap numbers_that_goto_1.bits = {}

\* C8, as stated: a cache is read for val before val is compared with a
\* literal, so no literal comparison has been made without a cache read.
C8_CacheBeforeLiteral ==
  (checked \cap {"val == 89", "val == 1"} # {}) =>
    (checked \cap {"numbers_that_goto_89[val]", "numbers_that_goto_1[val]"} # {})

\* C8, as the code has it: val is compared with 89 before
\* numbers_that_goto_89[val] is read and with 1 before numbers_that_goto_1[val]
\* is read; each test is made only when all the tests before it failed.
C8_LiteralBeforeCache ==
  /\ "numbers_that_goto_89[val]" \in checked =>
       ("val == 89" \in checked /\ val # 89)
  /\ "val == 1" \in checked =>
       ("numbers_that_goto_89[val]" \in checked
          /\ val \notin numbers_that_goto_89.bits)
  /\ "numbers_that_goto_1[val]" \in checked =>
       ("val == 1" \in checked /\ val # 1)

\* a chain ends on a hit in numbers_that_goto_1 after the other three tests
C8_Witness ==
  /\ pc = "bfc_mark"
  /\ goes_to_1
  /\ checked = {"val == 89", "numbers_that_goto_89[val]", "val == 1",
                "numbers_that_goto_1[val]"}

\* C9: the inner loop of BruteForceMethod::solve ends, on val = 1 or val = 89,
\* before chain_length reaches 12.
C9_ChainsShort ==
  /\ chain_length < 12
  /\ pc = "bf_exit" => val \in {1, 89}
  /\ (pc = "bf_iter" /\ chain_length = 11) =>
       squigit_of(current_chain_number) \in {1, 89}

\* a chain of a 7-digit start that ends with chain_length 11
C9_Witness ==
  /\ pc = "bf_exit"
  /\ digits = SourceDigits
  /\ chain_length = 11
  /\ i >= 1000000

\* C10: every call of fact in DigitsMethod::solve has an argument of at least
\* 1 and returns a true (unwrapped) nonzero factorial, so line 352 never
\* divides by zero.
C10_FactArgumentPositive ==
  /\ pc # "trap"
  /\ fact_call # NoFactCall =>
       /\ fact_call[1] \in 1 .. 7
       /\ fact_call[2] # Zero
       /\ Small(fact_call[2])
       /\ Nat32(fact_call[2]) \in {1, 2, 6, 24, 120, 720, 5040}

\* the division loop has called fact(6) for the six zeros of a combination
C10_Witness ==
  /\ pc = "dm_div"
  /\ k = 1
  /\ duplicates[0] = 6
  /\ fact_call = <<6, U32(720)>>

=============================================================================
